---- MODULE Spec2Model ----
(***************************************************************************)
(* TaskQuest: the game engine (hooks/useGameEngine.ts, localStorage        *)
(* variant), the quest board (TaskDashboard) and the profile / Monk Mode   *)
(* panel (Profile), as wired together by App.tsx.                          *)
(*                                                                         *)
(* Time is the reading of Date.now(), counted in units of 100 ms, so that  *)
(* 1200 ms, 1000 ms, 3000 ms and 1825 days are all integers that fit.      *)
(* ISO date strings (completedAt, startDate, deadline) are modelled by the *)
(* instant they denote: toISOString / new Date(..) round-trip exactly.     *)
(* timeSpent is kept in the same unit instead of fractional seconds.       *)
(***************************************************************************)
EXTENDS Integers, Sequences, FiniteSets, TLC

(***************************************************************************)
(* Bounds of the model                                                     *)
(***************************************************************************)
MaxTasks == 1
MaxLevel == 4
MaxSteps == 2
MaxWeeks == 5
MaxStatTasks == 5
MaxPending == 2
MaxStartable == 2
StartTime == 10
MaxSeconds == 6
MaxImports == 2
MaxStored == 1
MaxTickTasks == 2
MaxMembers == 2
MaxBoard == 3

(***************************************************************************)
(* Program constants (time in units of 100 ms)                             *)
(***************************************************************************)
CompleteDelay == 12
Second == 10
DayLen == 864000
YearLen == 315360000
InitialNextLevelExp == 100
DefaultMinRate == 50

\* a missing optional number (lastUpdated?, completedAt?, deadline?, ...)
Undefined == -1
\* the empty string of an unset date input
EmptyString == 0
\* the not-a-number value of a corrupted running total
NaN == -2

Priorities == {"LOW", "MEDIUM", "HIGH"}

MONK_MILESTONES == <<7, 28, 90, 180, 365, 1825>>

MilestoneSet == {MONK_MILESTONES[i] : i \in DOMAIN MONK_MILESTONES}

INITIAL_USER ==
  [level |-> 1, currentExp |-> 0, nextLevelExp |-> InitialNextLevelExp,
   streak |-> 0, class |-> "Rogue",
   monkMode |-> [isActive |-> FALSE, startDate |-> Undefined,
                 totalDays |-> 0, minSuccessRate |-> DefaultMinRate],
   unlockedMonkModes |-> <<>>]

VARIABLES
  now,               \* Date.now()
  tasks,             \* useGameEngine: tasks (newest first)
  userStats,         \* useGameEngine: userStats
  view,              \* App: currentView
  taskToDelete,      \* TaskDashboard: taskToDelete (Undefined = null)
  editingTaskId,     \* TaskDashboard: editingTaskId (Undefined = null)
  finishingTaskIds,  \* TaskDashboard: finishingTaskIds
  pending,           \* the setTimeout(.., 1200) callbacks not yet run
  showFailureDialog, \* Profile: showFailureDialog
  confirmBreach,     \* Profile: confirmBreach
  breachDue,         \* Profile: breachTimeout (Undefined = none armed)
  guild,             \* useGameEngine: guild (<<>> = null, else <<guild>>)
  isArray,           \* Array.isArray of the value the tasks state holds
  engine,            \* "off" (page closed), "running", "failed" (a
                     \* callback threw an error nothing caught)
  storage,           \* localStorage: the items of the three keys
  writable,          \* whether localStorage.setItem succeeds
  db,                \* the Dexie database (Profile backed by IndexedDB)
  importJob,         \* handleImport: the document and the open transaction
  importAlert,       \* handleImport: the alert shown last
  userRow            \* the engine backed by the database: the 'user' record
                     \* of db.userStats (<<>> while there is none)

vars == <<now, tasks, userStats, view, taskToDelete, editingTaskId,
          finishingTaskIds, pending, showFailureDialog, confirmBreach,
          breachDue, guild, isArray, engine, storage, writable, db,
          importJob, importAlert, userRow>>

boardVars == <<taskToDelete, editingTaskId, finishingTaskIds>>
profileVars == <<showFailureDialog, confirmBreach, breachDue>>
importVars == <<db, importJob, importAlert, userRow>>

(***************************************************************************)
(* Experience curve                                                        *)
(***************************************************************************)
IsNaN(x) == x = NaN

\* JavaScript + on numbers: NaN is absorbing
Plus(a, b) == IF IsNaN(a) \/ IsNaN(b) THEN NaN ELSE a + b

\* Math.floor(nextLevelExp * 1.5)
NextLevelExpMutant(n) == 2 * n
NextLevelExp(n) == (3 * n) \div 2

\* the while loop of addExp
RECURSIVE LevelUpMutant(_, _, _)
LevelUpMutant(currentExp, level, nextLevelExp) ==
  IF currentExp > nextLevelExp
  THEN LevelUpMutant(currentExp - nextLevelExp, level + 1,
                     NextLevelExp(nextLevelExp))
  ELSE [currentExp |-> currentExp, level |-> level,
        nextLevelExp |-> nextLevelExp]

RECURSIVE LevelUp(_, _, _)
LevelUp(currentExp, level, nextLevelExp) ==
  IF currentExp >= nextLevelExp
  THEN LevelUp(currentExp - nextLevelExp, level + 1,
               NextLevelExp(nextLevelExp))
  ELSE [currentExp |-> currentExp, level |-> level,
        nextLevelExp |-> nextLevelExp]

\* the updater passed to setUserStats by addExp
addExp(prev, amount) ==
  LET sum == Plus(prev.currentExp, amount)
      start == IF IsNaN(sum) THEN 0 ELSE sum
      r == LevelUp(start, prev.level, prev.nextLevelExp)
  IN  [prev EXCEPT !.level = r.level, !.currentExp = r.currentExp,
                   !.nextLevelExp = r.nextLevelExp]

(***************************************************************************)
(* Tasks                                                                   *)
(***************************************************************************)
\* exp fixed from the priority (addTask, saveEdit)
RewardOf(priority) ==
  IF priority = "HIGH" THEN 100 ELSE IF priority = "MEDIUM" THEN 50 ELSE 25

\* title.trim() is empty
IsBlank(title) == title = ""

\* JavaScript truthiness of an optional number / date string
Truthy(x) == x # Undefined /\ x # 0

Ids(ts) == {ts[i].id : i \in DOMAIN ts}

\* tasks.find(t => t.id === id): index of the first match, 0 when none
FindIndex(ts, id) ==
  IF \E i \in DOMAIN ts : ts[i].id = id
  THEN CHOOSE i \in DOMAIN ts :
         ts[i].id = id /\ \A j \in DOMAIN ts : ts[j].id = id => i <= j
  ELSE 0

InSeq(s, x) == \E i \in DOMAIN s : s[i] = x

\* prev.filter(taskId => taskId !== id)
Without(s, x) == SelectSeq(s, LAMBDA y : y # x)

\* the newTask literal of addTask
NewTask(title, priority, deadline) ==
  [id |-> now, title |-> title, completed |-> FALSE,
   exp |-> RewardOf(priority), priority |-> priority,
   timeSpent |-> 0, isRunning |-> FALSE,
   deadline |-> IF Truthy(deadline) THEN deadline ELSE Undefined,
   reminder |-> IF Truthy(deadline) THEN deadline ELSE Undefined,
   reminderFired |-> FALSE, lastUpdated |-> Undefined,
   completedAt |-> Undefined, deleted |-> FALSE,
   completedOnTime |-> "undefined"]

\* TaskDashboard: tasks.filter((!completed && !deleted) || finishing)
IsActiveTask(t) ==
  (~t.completed /\ ~t.deleted) \/ InSeq(finishingTaskIds, t.id)

activeTasks == {i \in DOMAIN tasks : IsActiveTask(tasks[i])}

\* CompletedTasks: tasks.filter(t => t.completed || t.deleted)
historyTasks == {i \in DOMAIN tasks : tasks[i].completed \/ tasks[i].deleted}

\* a row of the board showing the normal (non-edit) controls for id
RowShown(id) ==
  /\ view = "/"
  /\ \E i \in activeTasks : tasks[i].id = id
  /\ editingTaskId # id

\* the row of the board showing the edit form
EditFormShown ==
  /\ view = "/"
  /\ editingTaskId # Undefined
  /\ \E i \in activeTasks : tasks[i].id = editingTaskId

\* handleCompleteTask: the deadline check (now > deadlineDate)
DeadlinePassed(t, at) == Truthy(t.deadline) /\ at > t.deadline

\* handleCompleteTask: earnedExp
EarnedExpMutant(t, at) == IF DeadlinePassed(t, at) THEN t.exp ELSE t.exp
EarnedExp(t, at) == IF DeadlinePassed(t, at) THEN t.exp \div 2 ELSE t.exp

(***************************************************************************)
(* Profile: statistics and Monk Mode                                       *)
(***************************************************************************)
\* Math.round((a / b) * 100) for counts 0 <= a <= b, b > 0: the nearest
\* integer, a half rounded up.  The double product is exact at every half
\* for b < 40 (the first inexact one is 23 / 40, which the double
\* arithmetic takes to 57), so the integer form is the code's value for the
\* collections of at most MaxStatTasks + 1 tasks the model holds.
RoundPctMutant(a, b) == (100 * a) \div b
RoundPct(a, b) == (200 * a + b) \div (2 * b)

IsOnTimeQuest(t) == t.completed /\ t.completedOnTime # "false"

completedTasks(ts) == Cardinality({i \in DOMAIN ts : ts[i].completed})
abandonedTasks(ts) == Cardinality({i \in DOMAIN ts : ts[i].deleted})
onTimeQuests(ts) == Cardinality({i \in DOMAIN ts : IsOnTimeQuest(ts[i])})

\* Profile: successRate
successRate(ts) ==
  LET totalAttempts == completedTasks(ts) + abandonedTasks(ts)
  IN  IF totalAttempts > 0 THEN RoundPct(onTimeQuests(ts), totalAttempts)
      ELSE 100

\* getSessionStats: the filter on tasks
InSession(t, startDate) ==
  Truthy(t.completedAt) /\ (t.completed \/ t.deleted)
    /\ t.completedAt > startDate

getSessionStats(stats, ts) ==
  IF ~Truthy(stats.monkMode.startDate)
  THEN [total |-> 0, onTime |-> 0, rate |-> 100]
  ELSE LET sessionTasks ==
             {i \in DOMAIN ts : InSession(ts[i], stats.monkMode.startDate)}
           total == Cardinality(sessionTasks)
           onTime == Cardinality({i \in sessionTasks : IsOnTimeQuest(ts[i])})
       IN  IF total = 0 THEN [total |-> 0, onTime |-> 0, rate |-> 100]
           ELSE [total |-> total, onTime |-> onTime,
                 rate |-> RoundPct(onTime, total)]

\* stats.monkMode?.minSuccessRate || 50
minRate(stats) ==
  IF stats.monkMode.minSuccessRate # 0 THEN stats.monkMode.minSuccessRate
  ELSE DefaultMinRate

\* the condition of the Monk Mode failure effect
FailureFires(stats, ts) ==
  /\ stats.monkMode.isActive
  /\ Truthy(stats.monkMode.startDate)
  /\ getSessionStats(stats, ts).total > 0
  /\ getSessionStats(stats, ts).rate < minRate(stats)

\* prev => ({...prev, monkMode: {...prev.monkMode, isActive: false}})
Deactivate(prev) == [prev EXCEPT !.monkMode.isActive = FALSE]

\* the failure effect, run against the rendered stats and tasks
FailureEffect(stats, ts) ==
  IF FailureFires(stats, ts) THEN Deactivate(stats) ELSE stats

Abs(x) == IF x < 0 THEN 0 - x ELSE x

\* MONK_MILESTONES.forEach(m => elapsedDays >= m.d && !includes && push)
RECURSIVE UnlockFrom(_, _, _)
UnlockFrom(i, unlocked, elapsed) ==
  IF i > Len(MONK_MILESTONES) THEN unlocked
  ELSE IF elapsed >= MONK_MILESTONES[i] * DayLen
          /\ ~InSeq(unlocked, MONK_MILESTONES[i])
       THEN UnlockFrom(i + 1, Append(unlocked, MONK_MILESTONES[i]), elapsed)
       ELSE UnlockFrom(i + 1, unlocked, elapsed)

\* let newUnlocked = [...(stats.unlockedMonkModes || [])], then the forEach
newUnlockedMutant(stats, at) ==
  UnlockFrom(1, <<>>, Abs(at - stats.monkMode.startDate))

newUnlocked(stats, at) ==
  UnlockFrom(1, stats.unlockedMonkModes, Abs(at - stats.monkMode.startDate))

\* the completion effect: rendered stats, the state it updates, Date.now()
CompletionEffectMutant(stats, prev, at) ==
  IF stats.monkMode.isActive /\ Truthy(stats.monkMode.startDate)
  THEN IF Abs(at - stats.monkMode.startDate)
            > stats.monkMode.totalDays * DayLen
       THEN [prev EXCEPT !.monkMode.isActive = FALSE,
                         !.unlockedMonkModes = newUnlocked(stats, at)]
       ELSE IF newUnlocked(stats, at) # stats.unlockedMonkModes
            THEN [prev EXCEPT !.unlockedMonkModes = newUnlocked(stats, at)]
            ELSE prev
  ELSE prev
CompletionEffect(stats, prev, at) ==
  IF stats.monkMode.isActive /\ Truthy(stats.monkMode.startDate)
  THEN IF Abs(at - stats.monkMode.startDate)
            >= stats.monkMode.totalDays * DayLen
       THEN [prev EXCEPT !.monkMode.isActive = FALSE,
                         !.unlockedMonkModes = newUnlocked(stats, at)]
       ELSE IF newUnlocked(stats, at) # stats.unlockedMonkModes
            THEN [prev EXCEPT !.unlockedMonkModes = newUnlocked(stats, at)]
            ELSE prev
  ELSE prev

(***************************************************************************)
(* localStorage                                                            *)
(* An item is absent (getItem returns null), the empty string, text that   *)
(* JSON.parse rejects, text that parses to something else than the shape   *)
(* the engine expects (for tasks: not an array), or the JSON of a value.   *)
(* JSON.stringify drops the fields whose value is undefined, and reading a *)
(* dropped field gives undefined again: a value of the model is its own    *)
(* round trip.                                                             *)
(***************************************************************************)
ItemKinds == {"absent", "empty", "malformed", "other", "value"}

Item(kind, value) == [kind |-> kind, value |-> value]

\* JSON.stringify(value)
Stringify(value) == Item("value", value)

\* try { localStorage.setItem(key, JSON.stringify(value)) } catch { log }
setItemMutant(old, value, ok) == old
setItemTorn(old, value, ok) ==
  IF ok THEN Stringify(value) ELSE Item("malformed", value)
setItem(old, value, ok) == IF ok THEN Stringify(value) ELSE old

\* the three items after a successful write of each value
Saved(ts, stats, g) ==
  [tasks |-> Stringify(ts), user |-> Stringify(stats), guild |-> Stringify(g)]

(***************************************************************************)
(* The Dexie database and the import of a save file                        *)
(***************************************************************************)
\* a table's content: the rows of one generation of the save ("all" of
\* them, "some" of them after a bulk write that stopped, or "none")
Table(gen, rows) == [gen |-> gen, rows |-> rows]
Cleared == Table(0, "none")

\* the database an earlier session left: generation 1 in every table
EmptyDb == [tasks |-> Table(1, "all"), user |-> Table(1, "all"),
            guild |-> Table(1, "all")]

NoImport == [pc |-> "idle", step |-> 0, gen |-> 1, tasks |-> "rows",
             guild |-> "present", tx |-> EmptyDb]

\* The save files a user can pick.  text: whether JSON.parse accepts it;
\* tasks: missing (or falsy), rows that bulkAdd stores, or a value bulkAdd
\* rejects (not an array, rows without id, two rows of one id); guild: absent,
\* a guild, or a value put rejects (no id).
Documents ==
  [text : {"garbage", "json"}, tasks : {"missing", "rows", "bad"},
   user : {"missing", "present"}, guild : {"missing", "present", "bad"}]

\* JSON.parse succeeded and !data.tasks || !data.user is false
AcceptsMutant(doc) == doc.text = "json" /\ doc.tasks # "missing"
Accepts(doc) ==
  doc.text = "json" /\ doc.tasks # "missing" /\ doc.user # "missing"

(***************************************************************************)
(* Guild                                                                   *)
(***************************************************************************)
\* the member record of the user in a new guild
UserMember(stats) ==
  [id |-> "user", level |-> stats.level, class |-> stats.class,
   isUser |-> TRUE]

\* the auto-update effect: the user's member mirrors level and class
SyncGuildMutant(g, stats) ==
  IF g = <<>> THEN g
  ELSE IF \E k \in DOMAIN g[1].members :
            /\ g[1].members[k].isUser
            /\ g[1].members[k].class # stats.class
       THEN <<[g[1] EXCEPT !.members =
                 [k \in DOMAIN g[1].members |->
                    IF g[1].members[k].isUser
                    THEN [g[1].members[k] EXCEPT !.level = stats.level,
                                                 !.class = stats.class]
                    ELSE g[1].members[k]]]>>
       ELSE g

SyncGuild(g, stats) ==
  IF g = <<>> THEN g
  ELSE IF \E k \in DOMAIN g[1].members :
            /\ g[1].members[k].isUser
            /\ (g[1].members[k].level # stats.level
                  \/ g[1].members[k].class # stats.class)
       THEN <<[g[1] EXCEPT !.members =
                 [k \in DOMAIN g[1].members |->
                    IF g[1].members[k].isUser
                    THEN [g[1].members[k] EXCEPT !.level = stats.level,
                                                 !.class = stats.class]
                    ELSE g[1].members[k]]]>>
       ELSE g

(***************************************************************************)
(* Inputs                                                                  *)
(***************************************************************************)
Titles == {"", "q"}
\* values of the datetime-local inputs: none, or the instant the model starts
DateInputs == {EmptyString, StartTime}
Amounts == {0, 12, 25, 50, 100, 275}
Views == {"/", "/history", "/profile"}
AllViews == Views \cup {"/multiplayer"}
Week == 7 * DayLen
\* the durations offered by the selection grid that the model starts
Startable == {MONK_MILESTONES[i] : i \in 1..MaxStartable}

(***************************************************************************)
(* Initial state: empty storage, the board shown                           *)
(***************************************************************************)
Init ==
  /\ now = StartTime
  /\ tasks = <<>>
  /\ userStats = INITIAL_USER
  /\ view = "/"
  /\ taskToDelete = Undefined
  /\ editingTaskId = Undefined
  /\ finishingTaskIds = <<>>
  /\ pending = <<>>
  /\ showFailureDialog = FALSE
  /\ confirmBreach = FALSE
  /\ breachDue = Undefined
  /\ guild = <<>>
  /\ isArray = TRUE
  /\ engine = "running"
  /\ storage = Saved(<<>>, INITIAL_USER, <<>>)
  /\ writable = TRUE
  /\ db = EmptyDb
  /\ importJob = NoImport
  /\ importAlert = "none"
  /\ userRow = <<>>

(***************************************************************************)
(* usePersistent: every change of a state value is written to its key      *)
(***************************************************************************)
\* the step of a handler or callback of the localStorage engine: it runs
\* while the page is open and no error has torn the views down, and the
\* effect of usePersistent runs for each of the values it replaced
Persist ==
  /\ engine = "running"
  /\ storage' =
       [tasks |-> IF tasks' # tasks
                  THEN setItem(storage.tasks, tasks', writable)
                  ELSE storage.tasks,
        user  |-> IF userStats' # userStats
                  THEN setItem(storage.user, userStats', writable)
                  ELSE storage.user,
        guild |-> IF guild' # guild
                  THEN setItem(storage.guild, guild', writable)
                  ELSE storage.guild]
  /\ UNCHANGED <<isArray, engine, writable, importVars>>

(***************************************************************************)
(* The clock                                                               *)
(***************************************************************************)
\* time passes: d units, within the horizon of the specification
Advance(d, horizon) ==
  /\ now + d <= StartTime + horizon
  /\ now' = now + d
  /\ UNCHANGED <<tasks, userStats, view, boardVars, pending, profileVars>>
  /\ UNCHANGED <<guild, isArray, engine, storage, writable, importVars>>

(***************************************************************************)
(* useGameEngine                                                           *)
(***************************************************************************)
\* t.reminder && !t.reminderFired && new Date(t.reminder).getTime() <= now
ReminderDueMutant(t, at) ==
  Truthy(t.reminder) /\ ~t.reminderFired

ReminderDue(t, at) ==
  Truthy(t.reminder) /\ ~t.reminderFired /\ t.reminder <= at

needsUpdate(ts, at) ==
  \E i \in DOMAIN ts : ts[i].isRunning \/ ReminderDue(ts[i], at)

\* the per-task step of the tick's map
TickTaskMutant(t, at) ==
  IF t.isRunning
  THEN LET last == IF Truthy(t.lastUpdated) THEN t.lastUpdated ELSE at
           delta == at - last
           spent == IF Truthy(t.timeSpent) /\ ~IsNaN(t.timeSpent)
                    THEN t.timeSpent ELSE 0
       IN  [t EXCEPT !.timeSpent = spent + delta,
                     !.lastUpdated = at]
  ELSE IF ReminderDue(t, at) THEN [t EXCEPT !.reminderFired = TRUE]
  ELSE t

TickTask(t, at) ==
  IF t.isRunning
  THEN LET last == IF Truthy(t.lastUpdated) THEN t.lastUpdated ELSE at
           delta == at - last
           safeDelta == IF delta > 0 THEN delta ELSE 0
           spent == IF Truthy(t.timeSpent) /\ ~IsNaN(t.timeSpent)
                    THEN t.timeSpent ELSE 0
       IN  [t EXCEPT !.timeSpent = spent + safeDelta,
                     !.lastUpdated = at]
  ELSE IF ReminderDue(t, at) THEN [t EXCEPT !.reminderFired = TRUE]
  ELSE t

\* the setInterval callback of the game loop; on a tasks value that is not
\* an array current.some is not a function: the updater throws
Tick ==
  IF ~isArray
  THEN /\ engine = "running"
       /\ engine' = "failed"
       /\ UNCHANGED <<now, tasks, userStats, view, boardVars, pending,
                      profileVars, guild, isArray, storage, writable,
                      importVars>>
  ELSE /\ tasks' = IF needsUpdate(tasks, now)
                   THEN [i \in DOMAIN tasks |-> TickTask(tasks[i], now)]
                   ELSE tasks
       /\ IF view = "/profile"
          THEN /\ userStats' = FailureEffect(userStats, tasks')
               /\ showFailureDialog' =
                    (showFailureDialog \/ FailureFires(userStats, tasks'))
          ELSE UNCHANGED <<userStats, showFailureDialog>>
       /\ UNCHANGED <<now, view, boardVars, pending, confirmBreach,
                      breachDue, guild>>
       /\ Persist

\* addExp called on its own (the engine's mutation entry point)
AddExperience(amount) ==
  /\ userStats.level < MaxLevel
  /\ userStats' = addExp(userStats, amount)
  /\ UNCHANGED <<now, tasks, view, boardVars, pending, profileVars>>
  /\ guild' = IF view = "/multiplayer" THEN SyncGuild(guild, userStats')
               ELSE guild
  /\ Persist

(***************************************************************************)
(* TaskDashboard                                                           *)
(* A handler can run when the control bound to it is rendered and not      *)
(* disabled.  The edit form's fields and the new-quest inputs are what the *)
(* user typed; they are drawn when the handler that reads them runs.       *)
(***************************************************************************)
addTask(title, priority, deadline) ==
  /\ view = "/"
  /\ tasks' = IF IsBlank(title) THEN tasks
              ELSE <<NewTask(title, priority, deadline)>> \o tasks
  /\ UNCHANGED <<now, userStats, view, boardVars, pending, profileVars>>
  /\ UNCHANGED guild
  /\ Persist

\* the complete button (disabled while the row is finishing)
handleCompleteTask(id) ==
  /\ RowShown(id)
  /\ ~InSeq(finishingTaskIds, id)
  /\ Len(pending) < MaxPending
  /\ LET i == FindIndex(tasks, id)
     IN  IF i = 0 \/ tasks[i].completed
         THEN UNCHANGED <<finishingTaskIds, pending>>
         ELSE /\ finishingTaskIds' = Append(finishingTaskIds, id)
              /\ pending' = Append(pending,
                   [id |-> id,
                    earnedExp |-> EarnedExp(tasks[i], now),
                    isOnTime |-> ~DeadlinePassed(tasks[i], now),
                    due |-> now + CompleteDelay,
                    mounted |-> TRUE])
  /\ UNCHANGED <<now, tasks, userStats, view, taskToDelete, editingTaskId,
                 profileVars>>
  /\ UNCHANGED guild
  /\ Persist

\* the task as the delayed callback of handleCompleteTask leaves it
CompletedTaskMutant(t, p, at) ==
  [t EXCEPT !.completed = TRUE, !.completedAt = at, !.isRunning = FALSE,
            !.completedOnTime = IF p.isOnTime THEN "true" ELSE "false",
            !.exp = p.earnedExp]
CompletedTask(t, p, at) ==
  [t EXCEPT !.completed = TRUE, !.completedAt = at, !.isRunning = FALSE,
            !.lastUpdated = Undefined,
            !.completedOnTime = IF p.isOnTime THEN "true" ELSE "false",
            !.exp = p.earnedExp]

\* the callback of setTimeout(.., 1200): timers of equal delay run in order
CommitComplete ==
  /\ pending # <<>>
  /\ now >= Head(pending).due
  /\ LET p == Head(pending)
         stats1 == addExp(userStats, p.earnedExp)
     IN  /\ tasks' = [i \in DOMAIN tasks |->
                        IF tasks[i].id = p.id
                        THEN CompletedTask(tasks[i], p, now) ELSE tasks[i]]
         /\ finishingTaskIds' = IF p.mounted
                                THEN Without(finishingTaskIds, p.id)
                                ELSE finishingTaskIds
         /\ IF view = "/profile"
            THEN /\ userStats' = FailureEffect(stats1, tasks')
                 /\ showFailureDialog' =
                      (showFailureDialog \/ FailureFires(stats1, tasks'))
            ELSE /\ userStats' = stats1
                 /\ UNCHANGED showFailureDialog
  /\ pending' = Tail(pending)
  /\ UNCHANGED <<now, view, taskToDelete, editingTaskId, confirmBreach,
                 breachDue>>
  /\ guild' = IF view = "/multiplayer" THEN SyncGuild(guild, userStats')
               ELSE guild
  /\ Persist

\* the abandon button (disabled while the row is finishing)
initiateDelete(id) ==
  /\ RowShown(id)
  /\ ~InSeq(finishingTaskIds, id)
  /\ taskToDelete' = id
  /\ UNCHANGED <<now, tasks, userStats, view, editingTaskId,
                 finishingTaskIds, pending, profileVars>>
  /\ UNCHANGED guild
  /\ Persist

\* the task as confirmDelete leaves it
DeletedTask(t, at) ==
  [t EXCEPT !.deleted = TRUE, !.completedAt = at, !.isRunning = FALSE,
            !.lastUpdated = Undefined]

\* "Abandon Quest" in the confirmation modal
confirmDelete ==
  /\ view = "/"
  /\ taskToDelete # Undefined
  /\ tasks' = [i \in DOMAIN tasks |->
                 IF tasks[i].id = taskToDelete
                 THEN DeletedTask(tasks[i], now) ELSE tasks[i]]
  /\ taskToDelete' = Undefined
  /\ UNCHANGED <<now, userStats, view, editingTaskId, finishingTaskIds,
                 pending, profileVars>>
  /\ UNCHANGED guild
  /\ Persist

\* "Cancel" in the confirmation modal
cancelDelete ==
  /\ view = "/"
  /\ taskToDelete # Undefined
  /\ taskToDelete' = Undefined
  /\ UNCHANGED <<now, tasks, userStats, view, editingTaskId,
                 finishingTaskIds, pending, profileVars>>
  /\ UNCHANGED guild
  /\ Persist

\* the stopwatch button (disabled while the row is finishing)
toggleTimer(id) ==
  /\ RowShown(id)
  /\ ~InSeq(finishingTaskIds, id)
  /\ tasks' = [i \in DOMAIN tasks |->
                 IF tasks[i].id = id
                 THEN [tasks[i] EXCEPT
                         !.isRunning = ~tasks[i].isRunning,
                         !.lastUpdated = IF ~tasks[i].isRunning THEN now
                                         ELSE Undefined]
                 ELSE tasks[i]]
  /\ UNCHANGED <<now, userStats, view, boardVars, pending, profileVars>>
  /\ UNCHANGED guild
  /\ Persist

\* the edit button (disabled while finishing) or a double click on the
\* row's text (always bound); task is the row's task
startEditing(i) ==
  /\ i \in activeTasks
  /\ RowShown(tasks[i].id)
  /\ editingTaskId' = IF tasks[i].completed THEN editingTaskId
                      ELSE tasks[i].id
  /\ UNCHANGED <<now, tasks, userStats, view, taskToDelete,
                 finishingTaskIds, pending, profileVars>>
  /\ UNCHANGED guild
  /\ Persist

cancelEdit ==
  /\ EditFormShown
  /\ editingTaskId' = Undefined
  /\ UNCHANGED <<now, tasks, userStats, view, taskToDelete,
                 finishingTaskIds, pending, profileVars>>
  /\ UNCHANGED guild
  /\ Persist

\* the task as saveEdit leaves it
EditedTaskMutant(t, form) ==
  [t EXCEPT !.title = form.title, !.priority = form.priority,
            !.reminder = form.reminder, !.deadline = form.deadline,
            !.reminderFired = IF t.reminder # form.reminder THEN FALSE
                              ELSE t.reminderFired]

EditedTask(t, form) ==
  [t EXCEPT !.title = form.title, !.priority = form.priority,
            !.exp = RewardOf(form.priority),
            !.reminder = form.reminder, !.deadline = form.deadline,
            !.reminderFired = IF t.reminder # form.reminder THEN FALSE
                              ELSE t.reminderFired]

\* what the user can type into the edit form: title, priority, deadline
EditForms ==
  [title : Titles, priority : Priorities, deadline : DateInputs]

\* the edit form at Save: the fields with an input hold what was typed, the
\* reminder (which has no input) holds what startEditing put there,
\* task.reminder || ''.  Only saveEdit changes a task's reminder and it
\* closes the form, so that is the reminder the task still has.
editForm(t, typed) ==
  [title |-> typed.title, priority |-> typed.priority,
   deadline |-> typed.deadline,
   reminder |-> IF Truthy(t.reminder) THEN t.reminder ELSE EmptyString]

\* Save (or Enter) in the edit form
saveEdit(form) ==
  /\ EditFormShown
  /\ IF IsBlank(form.title)
     THEN UNCHANGED <<tasks, editingTaskId>>
     ELSE /\ tasks' = [i \in DOMAIN tasks |->
                         IF tasks[i].id = editingTaskId
                         THEN EditedTask(tasks[i], editForm(tasks[i], form))
                         ELSE tasks[i]]
          /\ editingTaskId' = Undefined
  /\ UNCHANGED <<now, userStats, view, taskToDelete, finishingTaskIds,
                 pending, profileVars>>
  /\ UNCHANGED guild
  /\ Persist

(***************************************************************************)
(* Profile                                                                 *)
(***************************************************************************)
BreachWindow == 30

\* the monkMode literal of startMonkMode
StartedMonkMode(days, at) ==
  [isActive |-> TRUE, startDate |-> at, totalDays |-> days,
   minSuccessRate |-> DefaultMinRate]

\* a duration button of the selection grid (rendered while inactive); the
\* two Monk Mode effects re-run because isActive and startDate changed
startMonkMode(days) ==
  /\ view = "/profile"
  /\ ~userStats.monkMode.isActive
  /\ LET started == [userStats EXCEPT !.monkMode = StartedMonkMode(days, now)]
     IN  /\ userStats' = CompletionEffect(started,
                                          FailureEffect(started, tasks), now)
         /\ showFailureDialog' = FailureFires(started, tasks)
  /\ UNCHANGED <<now, tasks, view, boardVars, pending, confirmBreach,
                 breachDue>>
  /\ UNCHANGED guild
  /\ Persist

\* setInterval(() => setMonkModeNow(Date.now()), 1000) while active, and the
\* completion effect it triggers
MonkTick ==
  /\ view = "/profile"
  /\ userStats.monkMode.isActive
  /\ userStats' = CompletionEffect(userStats, userStats, now)
  /\ UNCHANGED <<now, tasks, view, boardVars, pending, profileVars>>
  /\ UNCHANGED guild
  /\ Persist

\* the breach button (rendered while active)
handleBreachClick ==
  /\ view = "/profile"
  /\ userStats.monkMode.isActive
  /\ IF confirmBreach
     THEN /\ userStats' = Deactivate(userStats)
          /\ confirmBreach' = FALSE
          /\ UNCHANGED breachDue
     ELSE /\ confirmBreach' = TRUE
          /\ breachDue' = now + BreachWindow
          /\ UNCHANGED userStats
  /\ UNCHANGED <<now, tasks, view, boardVars, pending, showFailureDialog>>
  /\ UNCHANGED guild
  /\ Persist

\* the callback of breachTimeout
BreachExpireMutant ==
  /\ breachDue # Undefined
  /\ now >= breachDue
  /\ breachDue' = Undefined
  /\ UNCHANGED <<now, tasks, userStats, view, boardVars, pending,
                 showFailureDialog, confirmBreach>>
  /\ UNCHANGED guild
  /\ Persist
BreachExpire ==
  /\ breachDue # Undefined
  /\ now >= breachDue
  /\ confirmBreach' = FALSE
  /\ breachDue' = Undefined
  /\ UNCHANGED <<now, tasks, userStats, view, boardVars, pending,
                 showFailureDialog>>
  /\ UNCHANGED guild
  /\ Persist

\* "Acknowledge Failure"
acknowledgeFailure ==
  /\ view = "/profile"
  /\ showFailureDialog
  /\ showFailureDialog' = FALSE
  /\ UNCHANGED <<now, tasks, userStats, view, boardVars, pending,
                 confirmBreach, breachDue>>
  /\ UNCHANGED guild
  /\ Persist

(***************************************************************************)
(* App: switching the view unmounts one component and mounts another; the  *)
(* local state of an unmounted component is lost, its timeouts still run   *)
(***************************************************************************)
Unmounted(p) == [p EXCEPT !.mounted = FALSE]

Navigate(to) ==
  /\ to # view
  /\ view' = to
  /\ IF view = "/"
     THEN /\ taskToDelete' = Undefined
          /\ editingTaskId' = Undefined
          /\ finishingTaskIds' = <<>>
          /\ pending' = [k \in DOMAIN pending |-> Unmounted(pending[k])]
     ELSE UNCHANGED <<boardVars, pending>>
  /\ IF view = "/profile"
     THEN /\ confirmBreach' = FALSE
          /\ breachDue' = Undefined
     ELSE UNCHANGED <<confirmBreach, breachDue>>
  /\ IF to = "/profile"
     THEN /\ userStats' = CompletionEffect(userStats,
                            FailureEffect(userStats, tasks), now)
          /\ showFailureDialog' = FailureFires(userStats, tasks)
     ELSE /\ UNCHANGED userStats
          /\ showFailureDialog' = FALSE
  /\ UNCHANGED <<now, tasks>>
  /\ guild' = IF to = "/multiplayer" THEN SyncGuild(guild, userStats')
               ELSE guild
  /\ Persist

(***************************************************************************)
(* MultiplayerHub (Guild Hall)                                             *)
(***************************************************************************)
\* "Create Guild" (rendered while there is no guild)
createGuild(name) ==
  /\ view = "/multiplayer"
  /\ guild = <<>>
  /\ guild' = IF IsBlank(name) THEN guild
              ELSE <<[id |-> now, name |-> name,
                      members |-> <<UserMember(userStats)>>]>>
  /\ UNCHANGED <<now, tasks, userStats, view, boardVars, pending,
                 profileVars>>
  /\ Persist

\* "Leave Guild": setGuild(null)
leaveGuild ==
  /\ view = "/multiplayer"
  /\ guild # <<>>
  /\ guild' = <<>>
  /\ UNCHANGED <<now, tasks, userStats, view, boardVars, pending,
                 profileVars>>
  /\ Persist

\* "Add": a member entered by hand; parseInt(newMemberLevel) || 1
addMember(name, level, class) ==
  /\ view = "/multiplayer"
  /\ guild # <<>>
  /\ ~IsBlank(name)
  /\ Len(guild[1].members) < MaxMembers
  /\ guild' = <<[guild[1] EXCEPT !.members =
                   Append(@, [id |-> ToString(now),
                              level |-> IF Truthy(level) THEN level ELSE 1,
                              class |-> class, isUser |-> FALSE])]>>
  /\ UNCHANGED <<now, tasks, userStats, view, boardVars, pending,
                 profileVars>>
  /\ Persist

\* the remove button, rendered for every member that is not the user
removeMember(id) ==
  /\ view = "/multiplayer"
  /\ guild # <<>>
  /\ \E k \in DOMAIN guild[1].members :
       guild[1].members[k].id = id /\ ~guild[1].members[k].isUser
  /\ guild' = <<[guild[1] EXCEPT !.members =
                   SelectSeq(@, LAMBDA m : m.id # id)]>>
  /\ UNCHANGED <<now, tasks, userStats, view, boardVars, pending,
                 profileVars>>
  /\ Persist

(***************************************************************************)
(* Startup: the initializers of usePersistent                              *)
(***************************************************************************)
IsNumber(x) == x # NaN /\ x # Undefined

\* the map of the recovery initializer, per task
RecoverTask(t, at) ==
  IF ~Truthy(t.id) \/ IsBlank(t.title) THEN t
  ELSE IF t.isRunning /\ Truthy(t.lastUpdated)
  THEN LET delta == at - t.lastUpdated
           safeDelta == IF delta > 0 /\ delta < YearLen THEN delta ELSE 0
           currentSpent == IF IsNumber(t.timeSpent) THEN t.timeSpent ELSE 0
       IN  [t EXCEPT !.timeSpent = currentSpent + safeDelta,
                     !.lastUpdated = at]
  ELSE IF ~IsNumber(t.timeSpent) THEN [t EXCEPT !.timeSpent = 0]
  ELSE t

\* the recovery initializer passed as init for the tasks key: it reads the
\* item again
recoverTasks(item, at) ==
  IF item.kind \in {"absent", "empty"} THEN <<>>
  ELSE IF item.kind = "malformed" THEN <<>>
  ELSE IF item.kind = "other" THEN <<>>
  ELSE [i \in DOMAIN item.value |-> RecoverTask(item.value[i], at)]

\* useState(() => { item ? JSON.parse(item) : init } catch { init }): init
\* is used when the item is absent or empty or JSON.parse throws, otherwise
\* the parsed value is the state
usePersistent(item, init) ==
  IF item.kind \in {"absent", "empty", "malformed"} THEN init
  ELSE item.value

\* the page is opened (or reloaded): the three states are initialized from
\* localStorage, the board is shown, the effects of usePersistent write the
\* values back
Load ==
  /\ engine = "off"
  /\ engine' = "running"
  /\ tasks' = usePersistent(storage.tasks, recoverTasks(storage.tasks, now))
  /\ isArray' = (storage.tasks.kind # "other")
  /\ userStats' = usePersistent(storage.user, INITIAL_USER)
  /\ guild' = usePersistent(storage.guild, <<>>)
  /\ storage' =
       [tasks |-> IF isArray'
                  THEN setItem(storage.tasks, tasks', writable)
                  ELSE storage.tasks,
        user  |-> setItem(storage.user, userStats', writable),
        guild |-> setItem(storage.guild, guild', writable)]
  /\ view' = "/"
  /\ taskToDelete' = Undefined
  /\ editingTaskId' = Undefined
  /\ finishingTaskIds' = <<>>
  /\ pending' = <<>>
  /\ showFailureDialog' = FALSE
  /\ confirmBreach' = FALSE
  /\ breachDue' = Undefined
  /\ UNCHANGED <<now, writable, importVars>>

\* the page is closed: the states, the component state and the timers are
\* gone, localStorage stays
Close ==
  /\ engine # "off"
  /\ engine' = "off"
  /\ tasks' = <<>>
  /\ isArray' = TRUE
  /\ userStats' = INITIAL_USER
  /\ guild' = <<>>
  /\ view' = "/"
  /\ taskToDelete' = Undefined
  /\ editingTaskId' = Undefined
  /\ finishingTaskIds' = <<>>
  /\ pending' = <<>>
  /\ showFailureDialog' = FALSE
  /\ confirmBreach' = FALSE
  /\ breachDue' = Undefined
  /\ UNCHANGED <<now, storage, writable, importVars>>

\* the storage starts or stops taking writes (quota, private mode)
SetWritable(ok) ==
  /\ writable # ok
  /\ writable' = ok
  /\ UNCHANGED <<now, tasks, userStats, view, boardVars, pending,
                 profileVars, guild, isArray, engine, storage, importVars>>

(***************************************************************************)
(* Specification                                                           *)
(***************************************************************************)
\* the add / complete / abandon handlers, for the given new-quest inputs
BoardStep(priorities, deadlines) ==
  \/ /\ Len(tasks) < MaxTasks
     /\ \E title \in Titles, priority \in priorities, deadline \in deadlines :
          addTask(title, priority, deadline)
  \/ \E id \in Ids(tasks) : handleCompleteTask(id)
  \/ CommitComplete
  \/ \E id \in Ids(tasks) : initiateDelete(id)
  \/ confirmDelete
  \/ cancelDelete

\* the edit handlers, for the given contents of the edit form
EditStep(forms) ==
  \/ \E i \in DOMAIN tasks : startEditing(i)
  \/ cancelEdit
  \/ \E form \in forms : saveEdit(form)

MonkStep ==
  \/ \E days \in Startable : startMonkMode(days)
  \/ MonkTick
  \/ handleBreachClick
  \/ BreachExpire
  \/ acknowledgeFailure

\* The quest board and the engine; time passes in steps of the completion
\* delay.  Monk Mode stays inactive: its handlers write only
\* userStats.monkMode, userStats.unlockedMonkModes and the Profile's local
\* state, which no handler of the board reads.
Next ==
  \/ Advance(CompleteDelay, MaxSteps * CompleteDelay)
  \/ Tick
  \/ \E id \in Ids(tasks) : toggleTimer(id)
  \/ BoardStep(Priorities, DateInputs)
  \/ EditStep(EditForms)
  \/ \E to \in Views : Navigate(to)

Spec == Init /\ [][Next]_vars

\* Monk Mode over weeks, with the board handlers that feed the session
\* statistics (completed, deleted, completedAt, completedOnTime).
NextMonk ==
  \/ Advance(Week, MaxWeeks * Week)
  \/ BoardStep({"LOW"}, DateInputs)
  \/ MonkStep
  \/ \E to \in Views : Navigate(to)

SpecMonk == Init /\ [][NextMonk]_vars

\* the experience engine alone: any sequence of addExp calls
NextExp == \E amount \in Amounts : AddExperience(amount)

SpecExp == Init /\ [][NextExp]_vars

\* addExp called by a page whose stored user record has no numeric
\* currentExp (usePersistent returns whatever the item parses to)
InitInvalid ==
  /\ now = StartTime
  /\ tasks = <<>>
  /\ userStats = [INITIAL_USER EXCEPT !.currentExp = NaN]
  /\ view = "/"
  /\ taskToDelete = Undefined
  /\ editingTaskId = Undefined
  /\ finishingTaskIds = <<>>
  /\ pending = <<>>
  /\ showFailureDialog = FALSE
  /\ confirmBreach = FALSE
  /\ breachDue = Undefined
  /\ guild = <<>>
  /\ isArray = TRUE
  /\ engine = "running"
  /\ storage = Saved(<<>>, userStats, <<>>)
  /\ writable = TRUE
  /\ db = EmptyDb
  /\ importJob = NoImport
  /\ importAlert = "none"
  /\ userRow = <<>>

SpecExpInvalid == InitInvalid /\ [][NextExp]_vars

\* The statistics of the Profile over a stored collection of settled and
\* open quests: the collection is what an earlier session left in storage,
\* the Profile computes the rates when it is shown.
StatShapes == {"open", "onTime", "late", "legacy", "abandoned", "both"}

\* a stored quest of the given shape, created at instant id
StoredTask(shape, id) ==
  [id |-> id, title |-> "q", priority |-> "LOW",
   completed |-> shape \in {"onTime", "late", "legacy", "both"},
   deleted |-> shape \in {"abandoned", "both"},
   exp |-> IF shape = "late" THEN 12 ELSE 25,
   timeSpent |-> 0, isRunning |-> FALSE, lastUpdated |-> Undefined,
   deadline |-> IF shape = "late" THEN id ELSE Undefined,
   reminder |-> IF shape = "late" THEN id ELSE Undefined,
   reminderFired |-> shape = "late",
   completedAt |-> IF shape = "open" THEN Undefined ELSE StartTime,
   completedOnTime |-> IF shape \in {"onTime", "both"} THEN "true"
                       ELSE IF shape = "late" THEN "false"
                       ELSE "undefined"]

InitStats ==
  /\ now = StartTime
  /\ \E n \in 0..MaxStatTasks :
       \E shapes \in [1..n -> StatShapes] :
         tasks = [i \in 1..n |-> StoredTask(shapes[i], n + 1 - i)]
  /\ userStats = INITIAL_USER
  /\ view = "/"
  /\ taskToDelete = Undefined
  /\ editingTaskId = Undefined
  /\ finishingTaskIds = <<>>
  /\ pending = <<>>
  /\ showFailureDialog = FALSE
  /\ confirmBreach = FALSE
  /\ breachDue = Undefined
  /\ guild = <<>>
  /\ isArray = TRUE
  /\ engine = "running"
  /\ storage = Saved(tasks, INITIAL_USER, <<>>)
  /\ writable = TRUE
  /\ db = EmptyDb
  /\ importJob = NoImport
  /\ importAlert = "none"
  /\ userRow = <<>>

NextStats == \E to \in Views : Navigate(to)

SpecStats == InitStats /\ [][NextStats]_vars

\* The engine with its storage: the board, the tick, the guild, closing and
\* reopening the page.  Every write succeeds.
NextStore ==
  \/ Advance(CompleteDelay, MaxSteps * CompleteDelay)
  \/ Tick
  \/ \E id \in Ids(tasks) : toggleTimer(id)
  \/ BoardStep({"LOW"}, DateInputs)
  \/ \E name \in Titles : createGuild(name)
  \/ leaveGuild
  \/ \E to \in AllViews : Navigate(to)
  \/ Close
  \/ Load

SpecStore == Init /\ [][NextStore]_vars

\* The engine backed by the database.  userStats is the value the last
\* render saw (the live query's result, INITIAL_USER while there is no
\* record); the callbacks close over it.  userRow is the record itself.
Rendered(row) == IF row = <<>> THEN INITIAL_USER ELSE row[1]

\* addExp of that engine: computed from the rendered value, then
\* db.userStats.update('user', {level, currentExp, nextLevelExp}), which
\* modifies the record if there is one
dexieAddExp(amount) ==
  /\ userStats.level < MaxLevel
  /\ LET r == LevelUp(Plus(userStats.currentExp, amount), userStats.level,
                      userStats.nextLevelExp)
     IN  userRow' = IF userRow = <<>> THEN userRow
                    ELSE <<[userRow[1] EXCEPT !.level = r.level,
                                              !.currentExp = r.currentExp,
                                              !.nextLevelExp = r.nextLevelExp]>>
  /\ UNCHANGED <<now, tasks, userStats, view, boardVars, pending,
                 profileVars, guild, isArray, engine, storage, writable,
                 db, importJob, importAlert>>

\* setUserStats of that engine: db.userStats.put of the value computed from
\* the rendered one; streak stands for the field the caller changes
dexieSetUserStats(streak) ==
  /\ userRow' = <<[userStats EXCEPT !.streak = streak]>>
  /\ userRow' # userRow
  /\ UNCHANGED <<now, tasks, userStats, view, boardVars, pending,
                 profileVars, guild, isArray, engine, storage, writable,
                 db, importJob, importAlert>>

\* the live query publishes the record: the component renders again
LiveQuery ==
  /\ userStats # Rendered(userRow)
  /\ userStats' = Rendered(userRow)
  /\ UNCHANGED <<now, tasks, view, boardVars, pending, profileVars, guild,
                 isArray, engine, storage, writable, importVars>>

\* after migrateFromLocalStorage: a record when localStorage held a user,
\* none on a fresh installation
InitDexie ==
  /\ now = StartTime
  /\ tasks = <<>>
  /\ userRow \in {<<>>, <<INITIAL_USER>>}
  /\ userStats = INITIAL_USER
  /\ view = "/"
  /\ taskToDelete = Undefined
  /\ editingTaskId = Undefined
  /\ finishingTaskIds = <<>>
  /\ pending = <<>>
  /\ showFailureDialog = FALSE
  /\ confirmBreach = FALSE
  /\ breachDue = Undefined
  /\ guild = <<>>
  /\ isArray = TRUE
  /\ engine = "running"
  /\ storage = Saved(<<>>, INITIAL_USER, <<>>)
  /\ writable = TRUE
  /\ db = EmptyDb
  /\ importJob = NoImport
  /\ importAlert = "none"

DexieAmounts == {0, 25, 50, 100}

NextDexie ==
  \/ \E amount \in DexieAmounts : dexieAddExp(amount)
  \/ \E streak \in {0, 1} : dexieSetUserStats(streak)
  \/ LiveQuery

SpecDexie == InitDexie /\ [][NextDexie]_vars

\* The Guild Hall while experience is awarded: the hub is entered and left,
\* the guild created, filled and left, and addExp runs at any moment (the
\* completion timeouts of the board outlive the board).
MemberLevels == {EmptyString, 3}
HubViews == {"/", "/multiplayer"}

NextGuild ==
  \/ \E amount \in Amounts : AddExperience(amount)
  \/ \E name \in Titles : createGuild(name)
  \/ leaveGuild
  \/ \E name \in Titles, level \in MemberLevels : addMember(name, level, "Warrior")
  \/ \E k \in 1..MaxMembers :
       /\ guild # <<>>
       /\ k \in DOMAIN guild[1].members
       /\ removeMember(guild[1].members[k].id)
  \/ \E to \in HubViews : Navigate(to)

SpecGuild == Init /\ [][NextGuild]_vars

\* the same, with a storage that stops and resumes taking writes
NextFaulty ==
  \/ NextStore
  \/ \E ok \in BOOLEAN : SetWritable(ok)

SpecFaulty == Init /\ [][NextFaulty]_vars

\* Quests added to the board one after another, with and without time
\* passing in between.
NextIds ==
  \/ /\ Len(tasks) < MaxBoard
     /\ \E title \in Titles, priority \in Priorities, deadline \in DateInputs :
          addTask(title, priority, deadline)
  \/ Advance(Second, MaxSeconds * Second)

SpecIds == Init /\ [][NextIds]_vars

\* The game loop over a board of several quests, second by second: quests
\* as addTask, toggleTimer, an earlier tick and the completion leave them.
TickShapes == {"open", "running", "dueSoon", "runningDueSoon", "fired",
               "completed"}

\* a quest of the given shape created at instant id; a reminder not yet
\* fired falls due one second after the start
TickQuest(shape, id) ==
  [id |-> id, title |-> "q", priority |-> "LOW",
   completed |-> shape = "completed",
   deleted |-> FALSE,
   exp |-> 25,
   timeSpent |-> 0,
   isRunning |-> shape \in {"running", "runningDueSoon"},
   lastUpdated |-> IF shape \in {"running", "runningDueSoon"}
                   THEN StartTime ELSE Undefined,
   deadline |-> IF shape \in {"dueSoon", "runningDueSoon"}
                THEN StartTime + Second
                ELSE IF shape = "fired" THEN id ELSE Undefined,
   reminder |-> IF shape \in {"dueSoon", "runningDueSoon"}
                THEN StartTime + Second
                ELSE IF shape = "fired" THEN id ELSE Undefined,
   reminderFired |-> shape = "fired",
   completedAt |-> IF shape = "completed" THEN StartTime ELSE Undefined,
   completedOnTime |-> IF shape = "completed" THEN "true" ELSE "undefined"]

InitTick ==
  /\ now = StartTime
  /\ \E n \in 0..MaxTickTasks :
       \E shapes \in [1..n -> TickShapes] :
         tasks = [i \in 1..n |-> TickQuest(shapes[i], i)]
  /\ userStats = INITIAL_USER
  /\ view = "/"
  /\ taskToDelete = Undefined
  /\ editingTaskId = Undefined
  /\ finishingTaskIds = <<>>
  /\ pending = <<>>
  /\ showFailureDialog = FALSE
  /\ confirmBreach = FALSE
  /\ breachDue = Undefined
  /\ guild = <<>>
  /\ isArray = TRUE
  /\ engine = "running"
  /\ storage = Saved(tasks, INITIAL_USER, <<>>)
  /\ writable = TRUE
  /\ db = EmptyDb
  /\ importJob = NoImport
  /\ importAlert = "none"
  /\ userRow = <<>>

NextTick ==
  \/ Advance(Second, MaxSeconds * Second)
  \/ Tick
  \/ \E id \in Ids(tasks) : toggleTimer(id)

SpecTick == InitTick /\ [][NextTick]_vars

\* The 30-second sync of the engine backed by the database, on the rows of
\* db.tasks (tasks is the live query's result): every running row with a
\* stamp gets the time since the stamp added and is stamped again
SyncedRow(t, at) ==
  IF t.isRunning /\ Truthy(t.lastUpdated)
  THEN [t EXCEPT !.timeSpent = (IF Truthy(t.timeSpent) /\ ~IsNaN(t.timeSpent)
                                THEN t.timeSpent ELSE 0)
                               + (at - t.lastUpdated),
                 !.lastUpdated = at]
  ELSE t

dexieSync ==
  /\ \E i \in DOMAIN tasks : tasks[i].isRunning
  /\ tasks' = [i \in DOMAIN tasks |-> SyncedRow(tasks[i], now)]
  /\ UNCHANGED <<now, userStats, view, boardVars, pending, profileVars,
                 guild, isArray, engine, storage, writable, importVars>>

\* the system clock is set back (by the user or by a time synchronisation)
ClockSetBack(d) ==
  /\ now - d >= 0
  /\ now' = now - d
  /\ UNCHANGED <<tasks, userStats, view, boardVars, pending, profileVars,
                 guild, isArray, engine, storage, writable, importVars>>

NextFlush ==
  \/ Advance(Second, MaxSeconds * Second)
  \/ ClockSetBack(Second)
  \/ dexieSync

SpecFlush == InitTick /\ [][NextFlush]_vars

\* Startup from what an earlier session (or anything else that writes the
\* keys) left in localStorage, long after the model's epoch so that a
\* stored lastUpdated can lie more than a year back.
LoadTime == YearLen + 10 * Second

\* a stored open quest
StoredQuest(id, title, isRunning, lastUpdated, timeSpent) ==
  [NewTask("q", "LOW", EmptyString) EXCEPT
     !.id = id, !.title = title, !.isRunning = isRunning,
     !.lastUpdated = lastUpdated, !.timeSpent = timeSpent]

\* stored 5 s before the load, 5 s after it (the clock was set back since),
\* or more than a year before it
StoredLastUpdated ==
  {Undefined, LoadTime - 5 * Second, LoadTime + 5 * Second,
   LoadTime - YearLen - Second}

StoredQuests ==
  {StoredQuest(id, title, isRunning, lastUpdated, timeSpent) :
     id \in {Undefined, 5 * Second}, title \in Titles,
     isRunning \in BOOLEAN, lastUpdated \in StoredLastUpdated,
     timeSpent \in {NaN, 10 * Second}}

StoredTaskItems ==
  {Item(kind, <<>>) : kind \in ItemKinds \ {"value"}}
    \cup UNION {{Stringify(ts) : ts \in [1..n -> StoredQuests]} :
                  n \in 0..MaxStored}

InitLoad ==
  /\ now = LoadTime
  /\ engine = "off"
  /\ \E item \in StoredTaskItems :
       storage = [tasks |-> item, user |-> Stringify(INITIAL_USER),
                  guild |-> Stringify(<<>>)]
  /\ tasks = <<>>
  /\ isArray = TRUE
  /\ userStats = INITIAL_USER
  /\ guild = <<>>
  /\ view = "/"
  /\ taskToDelete = Undefined
  /\ editingTaskId = Undefined
  /\ finishingTaskIds = <<>>
  /\ pending = <<>>
  /\ showFailureDialog = FALSE
  /\ confirmBreach = FALSE
  /\ breachDue = Undefined
  /\ writable = TRUE
  /\ db = EmptyDb
  /\ importJob = NoImport
  /\ importAlert = "none"
  /\ userRow = <<>>

NextLoad ==
  \/ Load
  \/ Advance(Second, (LoadTime - StartTime) + MaxSeconds * Second)
  \/ Tick
  \/ Close

SpecLoad == InitLoad /\ [][NextLoad]_vars

(***************************************************************************)
(* Profile backed by the database: handleImport                            *)
(* The writes of the import run in one read-write transaction over the     *)
(* three tables.  A transaction works on its own copy: the database changes*)
(* when the transaction commits, and an operation that rejects aborts the  *)
(* transaction and rejects the promise handleImport awaits.                *)
(***************************************************************************)
appVars == <<now, tasks, userStats, view, boardVars, pending, profileVars,
             guild, isArray, engine, storage, writable, userRow>>

\* reader.onload: parse, validate, confirm, open the transaction; yes is the
\* answer to the confirmation prompt
handleImport(doc, yes) ==
  /\ importJob.pc = "idle"
  /\ importJob.gen <= MaxImports
  /\ IF ~Accepts(doc)
     THEN /\ importAlert' = "error"
          /\ UNCHANGED importJob
     ELSE IF ~yes
     THEN /\ importAlert' = "none"
          /\ UNCHANGED importJob
     ELSE /\ importAlert' = "none"
          /\ importJob' = [pc |-> "tx", step |-> 1, gen |-> importJob.gen + 1,
                           tasks |-> doc.tasks, guild |-> doc.guild,
                           tx |-> db]
  /\ UNCHANGED <<db, appVars>>

\* the working copy after the operation at position step of the transaction
TxWrite(job) ==
  CASE job.step = 1 -> [job.tx EXCEPT !.tasks = Cleared]
    [] job.step = 2 -> [job.tx EXCEPT !.user = Cleared]
    [] job.step = 3 -> [job.tx EXCEPT !.guild = Cleared]
    [] job.step = 4 -> [job.tx EXCEPT !.tasks =
                          Table(job.gen, IF job.tasks = "bad" THEN "some"
                                         ELSE "all")]
    [] job.step = 5 -> [job.tx EXCEPT !.user = Table(job.gen, "all")]
    [] OTHER        -> IF job.guild = "present"
                       THEN [job.tx EXCEPT !.guild = Table(job.gen, "all")]
                       ELSE job.tx

\* whether the operation at position step rejects; ok: the storage took it
TxRejects(job, ok) ==
  \/ ~ok
  \/ job.step = 4 /\ job.tasks = "bad"
  \/ job.step = 6 /\ job.guild = "bad"

\* one awaited operation of the transaction's body
TxStep(ok) ==
  /\ importJob.pc = "tx"
  /\ importJob.step <= 6
  /\ IF TxRejects(importJob, ok)
     THEN /\ importJob' = [importJob EXCEPT !.pc = "idle",
                                            !.tx = TxWrite(importJob)]
          /\ importAlert' = "error"
     ELSE /\ importJob' = [importJob EXCEPT !.step = importJob.step + 1,
                                            !.tx = TxWrite(importJob)]
          /\ UNCHANGED importAlert
  /\ UNCHANGED <<db, appVars>>

\* the transaction completes: commit, alert, window.location.reload()
TxCommit(ok) ==
  /\ importJob.pc = "tx"
  /\ importJob.step = 7
  /\ IF ok
     THEN /\ db' = importJob.tx
          /\ importAlert' = "success"
     ELSE /\ UNCHANGED db
          /\ importAlert' = "error"
  /\ importJob' = [importJob EXCEPT !.pc = "idle"]
  /\ UNCHANGED appVars

NextImport ==
  \/ \E doc \in Documents, yes \in BOOLEAN : handleImport(doc, yes)
  \/ \E ok \in BOOLEAN : TxStep(ok)
  \/ \E ok \in BOOLEAN : TxCommit(ok)

SpecImport == Init /\ [][NextImport]_vars

\* The Profile over seconds.  A timeout callback runs when it is due: time
\* does not pass beyond the due instant of the armed breach timeout before
\* its callback has run (one thread, nothing else occupies it).
AdvanceOnTime(d, horizon) ==
  /\ breachDue = Undefined \/ now < breachDue
  /\ Advance(d, horizon)

NextBreach ==
  \/ AdvanceOnTime(Second, MaxSeconds * Second)
  \/ \E days \in Startable : startMonkMode(days)
  \/ MonkTick
  \/ handleBreachClick
  \/ BreachExpire
  \/ \E to \in Views : Navigate(to)

SpecBreach == Init /\ [][NextBreach]_vars

\* The same with the board beside it: quests are added, completed and
\* abandoned, and a completion timeout can fire while the Profile is shown,
\* so that a session can fail within the seconds observed.
NextRearm ==
  \/ NextBreach
  \/ BoardStep({"LOW"}, DateInputs)
  \/ acknowledgeFailure

SpecRearm == Init /\ [][NextRearm]_vars

(***************************************************************************)
(* Properties                                                              *)
(***************************************************************************)
\* Profile: getTotalLifetimeXP
RECURSIVE LifetimeFrom(_, _, _)
LifetimeFrom(l, level, required) ==
  IF l < level THEN required + LifetimeFrom(l + 1, level, NextLevelExp(required))
  ELSE 0

getTotalLifetimeXP(stats) ==
  LifetimeFrom(1, stats.level, InitialNextLevelExp) + stats.currentExp

\* floor(n * 1.5), stated by its defining inequalities
FloorOneAndHalf(n) == CHOOSE m \in 0..(2 * n) : 2 * m <= 3 * n /\ 3 * n < 2 * m + 2

\* the threshold reached from n after k level-ups, and the sum of the k
\* thresholds passed on the way
RECURSIVE Threshold(_, _)
Threshold(n, k) == IF k = 0 THEN n ELSE Threshold(FloorOneAndHalf(n), k - 1)

RECURSIVE ThresholdsPassed(_, _)
ThresholdsPassed(n, k) ==
  IF k = 0 THEN 0 ELSE n + ThresholdsPassed(FloorOneAndHalf(n), k - 1)

\* new is old after the reference procedure for addExperience(amount): some
\* number k of level-ups, each paying the current threshold, ending below
\* the threshold (k is then determined); nothing else changes
IsReferenceResult(old, new, amount) ==
  \E k \in 0..(MaxLevel + 4) :
    /\ new = [old EXCEPT
                !.level = old.level + k,
                !.nextLevelExp = Threshold(old.nextLevelExp, k),
                !.currentExp = old.currentExp + amount
                                 - ThresholdsPassed(old.nextLevelExp, k)]
    /\ 0 <= new.currentExp
    /\ new.currentExp < new.nextLevelExp

\* C1: after every addExperience call 0 <= currentExp < nextLevelExp, and
\* the level is not lower than before the call.
C1_ExpInRangeLevelMonotone ==
  [][ /\ 0 <= userStats'.currentExp
      /\ userStats'.currentExp < userStats'.nextLevelExp
      /\ userStats'.level >= userStats.level ]_vars

\* several calls have been made and a level was gained with points left over
C1_Witness ==
  userStats.level >= 3 /\ userStats.currentExp > 0

\* C2: one addExperience(amount) gives exactly the result of the reference
\* procedure (add, then level up while currentExp >= nextLevelExp, the
\* threshold growing to floor(1.5 x)); every other field is unchanged.
C2_AddExpIsReference ==
  [][ \A amount \in Amounts :
        AddExperience(amount) =>
          IsReferenceResult(userStats, userStats', amount) ]_vars

\* a single call that gained two levels at once
C2_Witness ==
  userStats.level = 3 /\ userStats.currentExp = 25 /\ userStats.nextLevelExp = 225

\* the deadline of t has passed at the instant `at`
C3_Late(t, at) ==
  t.deadline \notin {Undefined, EmptyString} /\ t.deadline < at

\* C3: a quest completed (the complete button clicked) after its deadline
\* awards floor(exp / 2) and is recorded completedOnTime = false; one with
\* no deadline, or a deadline not yet passed, awards the full exp and is
\* recorded completedOnTime = true.  The click fixes the amount and the
\* flag; the delayed commit awards and records them.
C3_PenaltyRule ==
  [][ /\ Len(pending') = Len(pending) + 1 =>
           LET p == pending'[Len(pending')]
               t == tasks[CHOOSE i \in DOMAIN tasks :
                            tasks[i].id = p.id
                            /\ \A j \in DOMAIN tasks :
                                 tasks[j].id = p.id => i <= j]
           IN  IF C3_Late(t, now)
               THEN /\ 2 * p.earnedExp <= t.exp
                    /\ t.exp < 2 * p.earnedExp + 2
                    /\ ~p.isOnTime
               ELSE p.earnedExp = t.exp /\ p.isOnTime
      /\ Len(pending') = Len(pending) - 1 =>
           LET p == Head(pending)
           IN  /\ getTotalLifetimeXP(userStats')
                    = getTotalLifetimeXP(userStats) + p.earnedExp
               /\ \A i \in DOMAIN tasks :
                    tasks[i].id = p.id =>
                      /\ tasks'[i].completed
                      /\ tasks'[i].completedOnTime
                           = (IF p.isOnTime THEN "true" ELSE "false") ]_vars

\* a LOW quest completed late: 12 points awarded, recorded as late
C3_Witness ==
  \E i \in DOMAIN tasks :
    /\ tasks[i].completed
    /\ tasks[i].priority = "LOW"
    /\ tasks[i].completedOnTime = "false"
    /\ tasks[i].exp = 12
    /\ getTotalLifetimeXP(userStats) = 12

\* C4: the exp stored on a completed quest is the amount added to the
\* user's stats by its completion, and no later operation changes it.
C4_StoredExpIsAwarded ==
  [][ \A i \in DOMAIN tasks :
        LET j == i + Len(tasks') - Len(tasks)
        IN  /\ (~tasks[i].completed /\ tasks'[j].completed) =>
                 tasks'[j].exp = getTotalLifetimeXP(userStats')
                                   - getTotalLifetimeXP(userStats)
            /\ tasks[i].completed => tasks'[j].exp = tasks[i].exp ]_vars

\* C5: no operation removes a quest; abandoning one sets deleted = true,
\* after which it is in the history view and not in the active list.
C5_NeverRemoved ==
  [][ /\ Ids(tasks) \subseteq Ids(tasks')
      /\ Len(tasks') >= Len(tasks)
      /\ confirmDelete =>
           \A i \in DOMAIN tasks :
             tasks[i].id = taskToDelete =>
               /\ tasks'[i].deleted
               /\ i \in historyTasks'
               /\ i \notin activeTasks' ]_vars

\* C6: no quest is completed and deleted at the same time.
C6_ExactlyOneState ==
  \A i \in DOMAIN tasks : ~(tasks[i].completed /\ tasks[i].deleted)

\* C7: lastUpdated is present exactly when isRunning is true.
C7_LastUpdatedIffRunning ==
  \A i \in DOMAIN tasks :
    (tasks[i].lastUpdated # Undefined) <=> tasks[i].isRunning

\* a quest whose stopwatch ran, was ticked, and that was then completed
C7_Witness ==
  \E i \in DOMAIN tasks :
    tasks[i].completed /\ tasks[i].timeSpent > 0 /\ ~tasks[i].isRunning

\* C8: the success rate is 100 * onTime / (completed + abandoned) rounded to
\* a nearest integer, and 100 when nothing was completed or abandoned;
\* 3 on time, 1 late and 1 abandoned give 60.
C8_SuccessRate ==
  view = "/profile" =>
    LET completed == Cardinality({i \in DOMAIN tasks : tasks[i].completed})
        abandoned == Cardinality({i \in DOMAIN tasks : tasks[i].deleted})
        onTime == Cardinality({i \in DOMAIN tasks :
                    tasks[i].completed /\ tasks[i].completedOnTime # "false"})
        attempts == completed + abandoned
        rate == successRate(tasks)
    IN  /\ attempts = 0 => rate = 100
        /\ attempts > 0 =>
             /\ 2 * (100 * onTime - rate * attempts) <= attempts
             /\ 2 * (rate * attempts - 100 * onTime) <= attempts
        /\ (onTime = 3 /\ completed = 4 /\ abandoned = 1) => rate = 60

\* the Profile shown over 3 on-time, 1 late and 1 abandoned quest
C8_Witness ==
  /\ view = "/profile"
  /\ Cardinality({i \in DOMAIN tasks : tasks[i].completedOnTime = "true"}) = 3
  /\ Cardinality({i \in DOMAIN tasks : tasks[i].completedOnTime = "false"}) = 1
  /\ Cardinality({i \in DOMAIN tasks : tasks[i].deleted}) = 1
  /\ Cardinality({i \in DOMAIN tasks : tasks[i].completed}) = 4
  /\ successRate(tasks) = 60

\* C9: while Monk Mode is active, a change of the task collection that
\* leaves the session with at least one task and a success rate below the
\* minimum deactivates Monk Mode and surfaces the failure notice.
C9_FailsWhenRateDrops ==
  [][ ( /\ userStats.monkMode.isActive
        /\ tasks' # tasks
        /\ getSessionStats(userStats, tasks').total > 0
        /\ getSessionStats(userStats, tasks').rate < minRate(userStats) )
      => ( ~userStats'.monkMode.isActive /\ showFailureDialog' ) ]_vars

\* C10: when the Monk Mode clock tick (or the evaluation on showing the
\* Profile) runs with elapsed time >= totalDays, Monk Mode becomes inactive
\* and the unlocked list contains totalDays, every milestone <= the elapsed
\* days, and everything it contained before.
C10_CompletionUnlocks ==
  [][ ( /\ MonkTick \/ Navigate("/profile")
        /\ userStats.monkMode.isActive
        /\ now - userStats.monkMode.startDate
             >= userStats.monkMode.totalDays * DayLen )
      => ( /\ ~userStats'.monkMode.isActive
           /\ InSeq(userStats'.unlockedMonkModes, userStats.monkMode.totalDays)
           /\ \A m \in MilestoneSet :
                m * DayLen <= now - userStats.monkMode.startDate
                  => InSeq(userStats'.unlockedMonkModes, m)
           /\ \A k \in DOMAIN userStats.unlockedMonkModes :
                InSeq(userStats'.unlockedMonkModes,
                      userStats.unlockedMonkModes[k]) ) ]_vars

\* a 7-day session that ran its 7 days after a 28-day one had been completed
C10_Witness ==
  /\ ~userStats.monkMode.isActive
  /\ userStats.monkMode.totalDays = 7
  /\ userStats.monkMode.startDate >= StartTime + 28 * DayLen
  /\ now - userStats.monkMode.startDate >= 7 * DayLen
  /\ userStats.unlockedMonkModes = <<7, 28>>

\* C11: a breach click arms a 3-second window; a second click while armed
\* deactivates Monk Mode; the arm never outlives its 3 seconds (it is dropped
\* by the timeout, by the committing click or with the Profile), the expiry
\* leaves Monk Mode as it is, and a click after the expiry only re-arms.
C11_BreachTwoStep ==
  /\ [](confirmBreach => /\ view = "/profile"
                         /\ breachDue # Undefined
                         /\ breachDue - BreachWindow <= now
                         /\ now <= breachDue)
  /\ [][handleBreachClick =>
          IF confirmBreach
          THEN ~userStats'.monkMode.isActive /\ ~confirmBreach'
          ELSE /\ userStats' = userStats
               /\ confirmBreach'
               /\ breachDue' = now + BreachWindow]_vars
  /\ [][(confirmBreach /\ ~confirmBreach') =>
          \/ handleBreachClick
          \/ BreachExpire /\ now >= breachDue /\ userStats' = userStats
          \/ view' # view]_vars

\* the second click came inside the window of the first: Monk Mode is off
\* while the timeout of the first click is still to run
C11_Witness ==
  /\ view = "/profile"
  /\ ~userStats.monkMode.isActive
  /\ Truthy(userStats.monkMode.startDate)
  /\ ~confirmBreach
  /\ breachDue # Undefined
  /\ now < breachDue

\* C12: an import whose document does not parse or lacks tasks or user
\* shows the error and opens no transaction; a declined import does
\* nothing; the database changes only when the transaction commits, to the
\* complete new generation; a transaction that stops part-way shows the
\* error and leaves the database as it was; localStorage is never written.
C12_ImportAllOrNothing ==
  /\ [][\A doc \in Documents, yes \in BOOLEAN :
          handleImport(doc, yes) =>
            /\ db' = db
            /\ (doc.text = "garbage" \/ doc.tasks = "missing"
                  \/ doc.user = "missing")
                 => importAlert' = "error" /\ importJob'.pc = "idle"
            /\ ~yes => importJob'.pc = "idle"]_vars
  /\ [][db' # db =>
          /\ importJob.pc = "tx" /\ importJob.step = 7
          /\ db'.tasks = Table(importJob.gen, "all")
          /\ db'.user = Table(importJob.gen, "all")
          /\ db'.guild \in {Table(importJob.gen, "all"), Cleared}
          /\ importAlert' = "success"]_vars
  /\ [][(importJob.pc = "tx" /\ importJob'.pc = "idle" /\ db' = db
           /\ importJob.gen > db.tasks.gen)
          => importAlert' = "error"]_vars
  /\ [][storage' = storage]_vars

\* a transaction that had cleared the tables and stored some of the rows
\* was aborted: error shown, the database still of the first generation
C12_Witness ==
  /\ importJob.pc = "idle"
  /\ importJob.step = 4
  /\ importJob.tx.tasks = Table(2, "some")
  /\ importJob.tx.user = Cleared
  /\ importAlert = "error"
  /\ db = EmptyDb

\* C13: while the page is open the item under each key is the JSON of the
\* value in memory, whole (after every replacement of tasks, stats or guild
\* and after every tick), and opening the page again yields the stored
\* tasks, stats and guild.
C13_StoredIsPublished ==
  /\ [](engine = "running" => storage = Saved(tasks, userStats, guild))
  /\ [][Load => /\ tasks' = storage.tasks.value
                /\ userStats' = storage.user.value
                /\ guild' = storage.guild.value
                /\ storage' = storage]_vars

\* reopened with a completed quest, its experience and a guild in storage
C13_Witness ==
  /\ engine = "running"
  /\ pending = <<>>
  /\ finishingTaskIds = <<>>
  /\ Len(tasks) = 1 /\ tasks[1].completed
  /\ userStats.currentExp = 25
  /\ guild # <<>>
  /\ view = "/"
  /\ storage = Saved(tasks, userStats, guild)

\* C14: a failing storage write raises nothing and changes no item; the
\* handlers and the tick go on changing the values in memory; once writes
\* succeed again a changed value is stored whole.
C14_WriteFailureTolerated ==
  /\ [](engine # "failed")
  /\ [][~writable => storage' = storage]_vars
  /\ [][(writable /\ engine' = "running") =>
          /\ tasks' # tasks => storage'.tasks = Stringify(tasks')
          /\ userStats' # userStats => storage'.user = Stringify(userStats')
          /\ guild' # guild => storage'.guild = Stringify(guild')]_vars
  /\ [][(~writable /\ CommitComplete) =>
          /\ userStats' = addExp(userStats, Head(pending).earnedExp)
          /\ \E i \in DOMAIN tasks' : tasks'[i].completed]_vars

\* a quest was added, completed and rewarded while every write failed
C14_Witness ==
  /\ engine = "running"
  /\ ~writable
  /\ Len(tasks) = 1 /\ tasks[1].completed
  /\ userStats.currentExp = 25
  /\ storage = Saved(<<>>, INITIAL_USER, <<>>)

\* C15: a tasks item that does not parse, or parses to something that is not
\* an array, gives an empty task list at startup, and no tick raises an
\* error afterwards.
C15_MalformedStartsEmpty ==
  /\ [][(Load /\ storage.tasks.kind \in {"malformed", "other"})
          => (isArray' /\ tasks' = <<>>)]_vars
  /\ [](engine # "failed")

\* C16: addExperience(amount) on a total that is not a number first resets
\* the total to zero and then applies the addition: the result is the
\* reference result computed from a total of zero, so it reflects the amount
\* and satisfies 0 <= currentExp < nextLevelExp.
C16_InvalidTotalReset ==
  [][ \A amount \in Amounts :
        (IsNaN(userStats.currentExp) /\ AddExperience(amount)) =>
          IsReferenceResult([userStats EXCEPT !.currentExp = 0],
                            userStats', amount) ]_vars

\* C17: a tick at time now adds max(0, now - lastUpdated) to the timeSpent of
\* every running task and sets its lastUpdated to now (a task with
\* timeSpent 10 s and lastUpdated 5 s before the tick has 15 s after it).
C17_TickAddsElapsed ==
  [][ (Tick /\ isArray) =>
        \A i \in DOMAIN tasks :
          ( /\ tasks[i].isRunning
            /\ Truthy(tasks[i].lastUpdated)
            /\ IsNumber(tasks[i].timeSpent) ) =>
            /\ tasks'[i].timeSpent =
                 tasks[i].timeSpent
                   + (IF now > tasks[i].lastUpdated
                      THEN now - tasks[i].lastUpdated ELSE 0)
            /\ tasks'[i].lastUpdated = now ]_vars

\* the example of the claim: 10 s spent, stamped 5 s before the tick
C17_Witness ==
  \E i \in DOMAIN tasks :
    /\ tasks[i].isRunning
    /\ tasks[i].timeSpent = 15 * Second
    /\ tasks[i].lastUpdated = now

\* C18: a tick at time now marks reminderFired on every task, running or
\* not, that has a reminder set, not yet fired, whose time is at or before
\* now.
C18_DueReminderFires ==
  [][ (Tick /\ isArray) =>
        \A i \in DOMAIN tasks :
          ( /\ Truthy(tasks[i].reminder)
            /\ ~IsNaN(tasks[i].reminder)
            /\ ~tasks[i].reminderFired
            /\ tasks[i].reminder <= now ) =>
            tasks'[i].reminderFired ]_vars

\* C19: when the page starts from a stored task list, a stored task without
\* id or title is loaded as it is; otherwise a running task is loaded with
\* the time elapsed since its stored lastUpdated added to timeSpent and
\* with lastUpdated set to the load time, and a timeSpent that is not a
\* number is loaded as zero.
C19_RecoveryOnLoad ==
  [][ (Load /\ storage.tasks.kind = "value") =>
        /\ DOMAIN tasks' = DOMAIN storage.tasks.value
        /\ \A i \in DOMAIN storage.tasks.value :
             LET t == storage.tasks.value[i]
                 u == tasks'[i]
                 spent == IF IsNumber(t.timeSpent) THEN t.timeSpent ELSE 0
                 delta == now - t.lastUpdated
             IN  IF ~Truthy(t.id) \/ t.title = "" THEN u = t
                 ELSE /\ ( /\ t.isRunning
                           /\ Truthy(t.lastUpdated)
                           /\ delta > 0 /\ delta < YearLen ) =>
                           /\ u.timeSpent = spent + delta
                           /\ u.lastUpdated = now
                      /\ ~IsNumber(t.timeSpent) => u.timeSpent = spent ]_vars

\* C20: a running task whose stored lastUpdated lies after the current time
\* or more than a year before it has nothing added to timeSpent, neither
\* when the page loads nor by the tick that follows.
C20_AnomalousDeltaDropped ==
  [][ \A i \in DOMAIN tasks' :
        LET t == IF Load THEN storage.tasks.value[i] ELSE tasks[i]
            u == tasks'[i]
            delta == now - t.lastUpdated
        IN  ( /\ (Load /\ storage.tasks.kind = "value") \/ (Tick /\ isArray)
              /\ t.isRunning
              /\ Truthy(t.lastUpdated)
              /\ delta < 0 \/ delta > YearLen ) =>
              u.timeSpent \in {t.timeSpent, 0} ]_vars

\* the reminder of t is set, not fired, and at or before the instant `at`
C21_Due(t, at) ==
  Truthy(t.reminder) /\ ~t.reminderFired /\ t.reminder <= at

\* C21: a tick with no running task and no due unfired reminder changes
\* nothing (same task collection, nothing written); a tick that updates
\* leaves every task that is neither running nor due as it is; no tick
\* changes completed, deleted, exp, title, priority or deadline of a task.
C21_TickFrame ==
  [][ (Tick /\ isArray) =>
        /\ DOMAIN tasks' = DOMAIN tasks
        /\ (\A i \in DOMAIN tasks :
              ~tasks[i].isRunning /\ ~C21_Due(tasks[i], now)) =>
             (tasks' = tasks /\ storage' = storage /\ userStats' = userStats)
        /\ \A i \in DOMAIN tasks :
             /\ (~tasks[i].isRunning /\ ~C21_Due(tasks[i], now)) =>
                  tasks'[i] = tasks[i]
             /\ tasks'[i].completed = tasks[i].completed
             /\ tasks'[i].deleted = tasks[i].deleted
             /\ tasks'[i].exp = tasks[i].exp
             /\ tasks'[i].title = tasks[i].title
             /\ tasks'[i].priority = tasks[i].priority
             /\ tasks'[i].deadline = tasks[i].deadline ]_vars

\* a tick has updated a running quest and left a completed one beside it
C21_Witness ==
  \E i, j \in DOMAIN tasks :
    /\ tasks[i].isRunning /\ tasks[i].timeSpent > 0
    /\ tasks[i].lastUpdated = now
    /\ tasks[j].completed /\ tasks[j] = TickQuest("completed", j)

\* the members of guild g that are the user
C22_UserMembers(g) ==
  {k \in DOMAIN g[1].members : g[1].members[k].isUser}

\* the user's member of g shows the level and class of stats
C22_InSync(g, stats) ==
  \A k \in C22_UserMembers(g) :
    /\ g[1].members[k].level = stats.level
    /\ g[1].members[k].class = stats.class

\* the number of writes the auto-sync makes from g before it comes to rest,
\* the effect running again after each of its own writes
RECURSIVE C22_SyncWrites(_, _, _)
C22_SyncWrites(g, stats, fuel) ==
  IF fuel = 0 \/ SyncGuild(g, stats) = g THEN 0
  ELSE 1 + C22_SyncWrites(SyncGuild(g, stats), stats, fuel - 1)

\* C22: with a guild present the auto-sync writes the guild only when the
\* user's member differs from UserStats in level or class; after a change
\* of UserStats it writes at most once, the member then equals UserStats,
\* and it does not write again.
C22_SyncWritesOnce ==
  [][ (guild # <<>> /\ view' = "/multiplayer"
         /\ (userStats' # userStats \/ view # view')) =>
        /\ C22_SyncWrites(guild, userStats', 3) <= 1
        /\ C22_InSync(guild, userStats') =>
             (guild' = guild /\ storage'.guild = storage.guild)
        /\ guild' = SyncGuild(guild, userStats')
        /\ C22_InSync(guild', userStats')
        /\ C22_SyncWrites(guild', userStats', 3) = 0 ]_vars

\* the user has gained levels with the hub closed, and the hub, opened
\* again, shows the new level beside a member entered by hand
C22_Witness ==
  /\ view = "/multiplayer"
  /\ guild # <<>>
  /\ Len(guild[1].members) = 2
  /\ userStats.level = 3
  /\ C22_InSync(guild, userStats)
  /\ storage.guild = Stringify(guild)

C24_IdsUniqueOrdered ==
  \A i, j \in DOMAIN tasks : i < j => tasks[i].id > tasks[j].id

\* C25: experience for a task is awarded at most once and the task is
\* committed as completed at most once: the delayed commit of a completion
\* never runs for a task that an earlier commit has already completed.
C25_AwardedOnce ==
  [][ CommitComplete =>
        \A i \in DOMAIN tasks :
          tasks[i].id = Head(pending).id => ~tasks[i].completed ]_vars

\* C26: experience is conserved: every addExperience(amount) raises the
\* lifetime XP of the stored user by exactly amount, also when it is called
\* before the previous call's result has been published and when no user
\* record exists yet; no awarded amount is lost.
C26_ExperienceConserved ==
  [][ \A amount \in DexieAmounts :
        dexieAddExp(amount) =>
          getTotalLifetimeXP(Rendered(userRow'))
            = getTotalLifetimeXP(Rendered(userRow)) + amount ]_vars

\* C27: a breach click ends a session only if the click that armed the
\* button was made in that same session: an arm left from a session that
\* ended by completion or failure does not let a single click end the next
\* session.  (breachDue - BreachWindow is the instant of the arming click.)
C27_ArmStaysInSession ==
  [][ ( /\ handleBreachClick
        /\ userStats.monkMode.isActive
        /\ ~userStats'.monkMode.isActive ) =>
        breachDue - BreachWindow >= userStats.monkMode.startDate ]_vars

\* C28: no operation lowers the timeSpent of a task, also when the clock
\* reads earlier than it did at the task's last stamp.
C28_TimeSpentMonotone ==
  [][ \A i \in DOMAIN tasks :
        i \in DOMAIN tasks' => tasks'[i].timeSpent >= tasks[i].timeSpent ]_vars

\* C29: the reminder of every task is its deadline, whatever was added and
\* edited: both unset, or both the same instant.
C29_ReminderIsDeadline ==
  \A i \in DOMAIN tasks :
    (Truthy(tasks[i].deadline) \/ Truthy(tasks[i].reminder)) =>
      tasks[i].reminder = tasks[i].deadline

\* C30: over Monk Mode starts, clock ticks, failures, completions and
\* breaches the list of unlocked milestones only grows, holds no value
\* twice, and holds only values of the milestone set.
C30_UnlocksOnlyGrow ==
  /\ [][ \A k \in DOMAIN userStats.unlockedMonkModes :
           InSeq(userStats'.unlockedMonkModes,
                 userStats.unlockedMonkModes[k]) ]_vars
  /\ [](\A k, l \in DOMAIN userStats.unlockedMonkModes :
          /\ userStats.unlockedMonkModes[k] \in {7, 28, 90, 180, 365, 1825}
          /\ k # l => userStats.unlockedMonkModes[k]
                        # userStats.unlockedMonkModes[l])

\* the 7-day milestone unlocked in the course of a 28-day session
C30_Witness ==
  /\ userStats.monkMode.isActive
  /\ userStats.monkMode.totalDays = 28
  /\ now - userStats.monkMode.startDate >= 7 * DayLen
  /\ now - userStats.monkMode.startDate < 28 * DayLen
  /\ InSeq(userStats.unlockedMonkModes, 7)

====
